---- MODULE Spec2Model ----
(***************************************************************************)
(* A model of src/main.js: the paginated patient fetch with its retry      *)
(* loop, the three scoring functions, the alert lists and the submission.  *)
(*                                                                         *)
(* Strings are sequences of one-character strings, so that the regular     *)
(* expression and parseInt of parseBP are computed, not assumed.           *)
(* Temperatures are integers in hundredths of a degree (99.5 is 9950).     *)
(***************************************************************************)
EXTENDS Integers, Sequences, FiniteSets

VARIABLES
    pc,          \* position of the single async flow of runAssessment
    page,        \* fetchPatients: let page
    totalPages,  \* fetchPatients: let totalPages
    attempts,    \* fetchPatients: let attempts
    success,     \* fetchPatients: let success
    patients,    \* fetchPatients: let patients (the accumulator)
    alerts,      \* runAssessment: const alerts
    inflight,    \* number of GET requests awaiting their response
    reqPages,    \* history: the page numbers requested, repeats collapsed
    events,      \* history: requests (0) and backoff sleeps (ms) of this page
    pageStart,   \* history: the accumulator when the current page began
    only429,     \* history: every failure of the current page was a 429
    lastStatus,  \* history: status of the last GET response (-1 none, 0 network)
    reported,    \* history: 0, or N if every totalPages reported was N, or -1
    gaveUp,      \* history: pages given up after MaxAttempts failures
    malformed,   \* history: number of 200 bodies that lacked a field
    posts,       \* history: number of POSTs issued
    postStatus,  \* history: status of the POST's response (-1 none, 0 network)
    postBody,    \* history: body of the POST's response
    runs,        \* history: number of times runAssessment was entered
    arg,         \* scoring call: the argument handed to the function
    given,       \* scoring call: what the argument was built from
    applied,     \* scoring call: whether the function has been applied
    out          \* scoring call: the value it returned

runVars == <<pc, page, totalPages, attempts, success, patients, alerts,
             inflight, reqPages, events, pageStart, only429, lastStatus,
             reported, gaveUp, malformed, posts, postStatus, postBody, runs>>

fnVars == <<arg, given, applied, out>>

vars == <<runVars, fnVars>>

(***************************************************************************)
(* Bounds of the model.                                                    *)
(***************************************************************************)
MaxSys == 150
MaxDia == 100
MaxRawLen == 4
MaxTemp == 10200
MinTemp == 9800
MaxAge == 120
MaxList == 3
MaxPages == 3
PageSize == 2
MaxMalformed == 1

(***************************************************************************)
(* Values.                                                                 *)
(***************************************************************************)
Absent == [kind |-> "absent"]                 \* null or undefined
Str(cs) == [kind |-> "string", chars |-> cs]  \* a JavaScript string
NaNValue == [kind |-> "nan"]                  \* NaN, or a non-numeric string
Num(v) == [kind |-> "num", v |-> v]           \* a number, in hundredths

Digits == <<"0", "1", "2", "3", "4", "5", "6", "7", "8", "9">>

IsDigit(c) == \E i \in 1..10 : Digits[i] = c

DigitValue(c) == (CHOOSE i \in 1..10 : Digits[i] = c) - 1

\* parseInt of a non-empty run of decimal digits (radix 10).
RECURSIVE parseInt(_)
parseInt(cs) ==
    IF cs = <<>> THEN 0
    ELSE 10 * parseInt(SubSeq(cs, 1, Len(cs) - 1)) + DigitValue(cs[Len(cs)])

\* Number.prototype.toString of a non-negative integer.
RECURSIVE ToDigits(_)
ToDigits(n) ==
    IF n < 10 THEN <<Digits[n + 1]>>
    ELSE ToDigits(n \div 10) \o <<Digits[(n % 10) + 1]>>

\* The end (exclusive) of the maximal run of digits of cs that starts at i.
RECURSIVE RunEnd(_, _)
RunEnd(cs, i) ==
    IF i <= Len(cs) /\ IsDigit(cs[i]) THEN RunEnd(cs, i + 1) ELSE i

\* Whether /(\d+)\/(\d+)/ matches cs starting at position i: \d+ is greedy
\* and a shorter run cannot be followed by "/", so the first group is the
\* maximal run from i.
MatchesAt(cs, i) ==
    LET j == RunEnd(cs, i)
    IN  /\ j > i
        /\ j + 1 <= Len(cs)
        /\ cs[j] = "/"
        /\ IsDigit(cs[j + 1])

\* String.prototype.match with a non-global regular expression: the leftmost
\* match, as <<group 1, group 2>>, or <<>> for null.
Match(cs) ==
    IF \E i \in 1..Len(cs) : MatchesAt(cs, i)
    THEN LET i == CHOOSE k \in 1..Len(cs) :
                      /\ MatchesAt(cs, k)
                      /\ \A m \in 1..(k - 1) : ~MatchesAt(cs, m)
             j == RunEnd(cs, i)
         IN  <<SubSeq(cs, i, j - 1), SubSeq(cs, j + 1, RunEnd(cs, j + 1) - 1)>>
    ELSE <<>>

\* BPBands with band 4 tested before band 3.
BPBandsSwapped(systolic, diastolic) ==
    IF systolic < 120 /\ diastolic < 80 THEN 1
    ELSE IF systolic >= 120 /\ systolic <= 129 /\ diastolic < 80 THEN 2
    ELSE IF systolic >= 140 \/ diastolic >= 90 THEN 4
    ELSE IF \/ (systolic >= 130 /\ systolic <= 139)
            \/ (diastolic >= 80 /\ diastolic <= 89) THEN 3
    ELSE 0

\* BPBands with the two clauses of band 3 joined by "and".
BPBandsConjunctive(systolic, diastolic) ==
    IF systolic < 120 /\ diastolic < 80 THEN 1
    ELSE IF systolic >= 120 /\ systolic <= 129 /\ diastolic < 80 THEN 2
    ELSE IF /\ (systolic >= 130 /\ systolic <= 139)
            /\ (diastolic >= 80 /\ diastolic <= 89) THEN 3
    ELSE IF systolic >= 140 \/ diastolic >= 90 THEN 4
    ELSE 0

\* Lines 96-101: the four bands of parseBP, in the order of the source.
BPBands(systolic, diastolic) ==
    IF systolic < 120 /\ diastolic < 80 THEN 1
    ELSE IF systolic >= 120 /\ systolic <= 129 /\ diastolic < 80 THEN 2
    ELSE IF \/ (systolic >= 130 /\ systolic <= 139)
            \/ (diastolic >= 80 /\ diastolic <= 89) THEN 3
    ELSE IF systolic >= 140 \/ diastolic >= 90 THEN 4
    ELSE 0

\* function parseBP(bp): bp is absent or a string.  (parseInt of a run of
\* digits is never NaN, so the isNaN test of line 93 never returns.)
parseBP(bp) ==
    IF bp.kind = "absent" THEN 0
    ELSE IF bp.chars = <<>> THEN 0
    ELSE LET match == Match(bp.chars)
         IN  IF match = <<>> THEN 0
             ELSE BPBands(parseInt(match[1]), parseInt(match[2]))

\* parseTemp with the comparison of line 108 made strict.
parseTempStrict(temp) ==
    IF temp.kind = "absent" \/ temp.kind = "nan" THEN 0
    ELSE IF temp.v <= 9950 THEN 0
    ELSE IF temp.v < 10090 THEN 1
    ELSE 2

\* function parseTemp(temp): temp is absent, NaN or a number.
parseTemp(temp) ==
    IF temp.kind = "absent" \/ temp.kind = "nan" THEN 0
    ELSE IF temp.v <= 9950 THEN 0
    ELSE IF temp.v <= 10090 THEN 1
    ELSE 2

\* parseAge with the comparison of line 116 made strict.
parseAgeStrict(age) ==
    IF age.kind = "absent" \/ age.kind = "nan" THEN 0
    ELSE IF age.v < 40 THEN 1
    ELSE IF age.v < 65 THEN 1
    ELSE 2

\* function parseAge(age): age is absent, NaN or a number of years.
parseAge(age) ==
    IF age.kind = "absent" \/ age.kind = "nan" THEN 0
    ELSE IF age.v < 40 THEN 1
    ELSE IF age.v <= 65 THEN 1
    ELSE 2

\* calculateRisk with dataIssue raised only when every sub-score is 0.
calculateRiskAllZero(patient) ==
    IF patient.kind = "absent"
    THEN [total |-> 0, bpScore |-> 0, tempScore |-> 0, ageScore |-> 0,
          dataIssue |-> TRUE]
    ELSE LET bpScore == parseBP(patient.blood_pressure)
             tempScore == parseTemp(patient.temperature)
             ageScore == parseAge(patient.age)
         IN  [total |-> bpScore + tempScore + ageScore,
              bpScore |-> bpScore, tempScore |-> tempScore,
              ageScore |-> ageScore,
              dataIssue |-> {bpScore, tempScore, ageScore} = {0}]

\* function calculateRisk(patient): patient is absent or a patient record.
calculateRisk(patient) ==
    IF patient.kind = "absent"
    THEN [total |-> 0, bpScore |-> 0, tempScore |-> 0, ageScore |-> 0,
          dataIssue |-> TRUE]
    ELSE LET bpScore == parseBP(patient.blood_pressure)
             tempScore == parseTemp(patient.temperature)
             ageScore == parseAge(patient.age)
         IN  [total |-> bpScore + tempScore + ageScore,
              bpScore |-> bpScore, tempScore |-> tempScore,
              ageScore |-> ageScore,
              dataIssue |-> 0 \in {bpScore, tempScore, ageScore}]

\* IsFever without the threshold: any truthy temperature.
IsFeverTruthy(temperature) ==
    temperature.kind = "num" /\ temperature.v # 0

\* IsFever decided by the banded score instead of the raw value.
IsFeverByScore(temperature) == parseTemp(temperature) >= 1

\* Line 155: p.temperature && p.temperature >= 99.6.
IsFever(temperature) ==
    temperature.kind = "num" /\ temperature.v # 0 /\ temperature.v >= 9960

\* buildAlertLists with unshift in place of push.
RECURSIVE buildAlertListsPrepending(_)
buildAlertListsPrepending(ps) ==
    IF ps = <<>>
    THEN [high_risk_patients |-> <<>>, fever_patients |-> <<>>,
          data_quality_issues |-> <<>>]
    ELSE LET rest == buildAlertListsPrepending(SubSeq(ps, 1, Len(ps) - 1))
             p == ps[Len(ps)]
         IN  IF p.kind = "absent" THEN rest
             ELSE LET risk == calculateRisk(p)
                  IN  [high_risk_patients |->
                           IF risk.total >= 4
                           THEN <<p.patient_id>> \o rest.high_risk_patients
                           ELSE rest.high_risk_patients,
                       fever_patients |->
                           IF IsFever(p.temperature)
                           THEN <<p.patient_id>> \o rest.fever_patients
                           ELSE rest.fever_patients,
                       data_quality_issues |->
                           IF risk.dataIssue
                           THEN <<p.patient_id>> \o rest.data_quality_issues
                           ELSE rest.data_quality_issues]

\* buildAlertLists without the skip of line 150, reading p?.patient_id.
RECURSIVE buildAlertListsNoSkip(_)
buildAlertListsNoSkip(ps) ==
    IF ps = <<>>
    THEN [high_risk_patients |-> <<>>, fever_patients |-> <<>>,
          data_quality_issues |-> <<>>]
    ELSE LET rest == buildAlertListsNoSkip(SubSeq(ps, 1, Len(ps) - 1))
             p == ps[Len(ps)]
             id == IF p.kind = "absent" THEN 0 ELSE p.patient_id
             risk == calculateRisk(p)
         IN  [high_risk_patients |->
                  IF risk.total >= 4
                  THEN Append(rest.high_risk_patients, id)
                  ELSE rest.high_risk_patients,
              fever_patients |->
                  IF p.kind # "absent" /\ IsFever(p.temperature)
                  THEN Append(rest.fever_patients, id)
                  ELSE rest.fever_patients,
              data_quality_issues |->
                  IF risk.dataIssue
                  THEN Append(rest.data_quality_issues, id)
                  ELSE rest.data_quality_issues]

\* function buildAlertLists(patients): one forEach pass, in order.
RECURSIVE buildAlertLists(_)
buildAlertLists(ps) ==
    IF ps = <<>>
    THEN [high_risk_patients |-> <<>>, fever_patients |-> <<>>,
          data_quality_issues |-> <<>>]
    ELSE LET rest == buildAlertLists(SubSeq(ps, 1, Len(ps) - 1))
             p == ps[Len(ps)]
         IN  IF p.kind = "absent" THEN rest
             ELSE LET risk == calculateRisk(p)
                  IN  [high_risk_patients |->
                           IF risk.total >= 4
                           THEN Append(rest.high_risk_patients, p.patient_id)
                           ELSE rest.high_risk_patients,
                       fever_patients |->
                           IF IsFever(p.temperature)
                           THEN Append(rest.fever_patients, p.patient_id)
                           ELSE rest.fever_patients,
                       data_quality_issues |->
                           IF risk.dataIssue
                           THEN Append(rest.data_quality_issues, p.patient_id)
                           ELSE rest.data_quality_issues]

(***************************************************************************)
(* The server, as fetchPatients sees it.                                   *)
(***************************************************************************)
MaxAttempts == 10
BackoffMs == 3000

\* One of four sample records, chosen by the identifier.
SamplePatient(i) ==
    [kind |-> "patient",
     patient_id |-> i,
     blood_pressure |->
         IF i % 4 = 0 THEN Str(<<"1", "4", "5", "/", "9", "5">>)
         ELSE IF i % 4 = 1 THEN Str(<<"1", "1", "8", "/", "7", "6">>)
         ELSE IF i % 4 = 2 THEN Absent
         ELSE Str(<<"1", "3", "0", "/", "8", "5">>),
     temperature |->
         IF i % 4 = 0 THEN Num(10120)
         ELSE IF i % 4 = 1 THEN Num(9860)
         ELSE IF i % 4 = 2 THEN Num(9980)
         ELSE NaNValue,
     age |->
         IF i % 4 = 0 THEN Num(70)
         ELSE IF i % 4 = 1 THEN Num(30)
         ELSE IF i % 4 = 2 THEN Num(45)
         ELSE Absent]

\* The data array the server holds for page p.
PageData(p) == [k \in 1..PageSize |-> SamplePatient((p - 1) * PageSize + k)]

\* json.data of a response for page p: the array, or undefined.
Array(items) == [kind |-> "array", items |-> items]

DataOf(p, hasData) == IF hasData THEN Array(PageData(p)) ELSE Absent

ServerErrors == {500, 502, 503}
UnexpectedStatuses == {400, 401, 404}
TotalPagesValues == 1..MaxPages

(***************************************************************************)
(* fetchPatients.                                                          *)
(***************************************************************************)
\* Concat with the accumulator overwritten: patients = [].concat(data).
Replaced(ps, data) ==
    IF data.kind = "absent" THEN <<Absent>> ELSE data.items

\* Line 57, patients.concat(data): an array is spliced in, undefined is
\* appended as one undefined element.
Concat(ps, data) ==
    IF data.kind = "absent" THEN Append(ps, Absent) ELSE ps \o data.items

\* ShouldRetry with the bound off by one.
ShouldRetryInclusive(s, a) == ~s /\ a <= MaxAttempts

\* Line 27: while (!success && attempts < 10).
ShouldRetry(s, a) == ~s /\ a < MaxAttempts

\* Backoff made exponential.
BackoffDoubling(a) == BackoffMs * (2 ^ (a - 1))

\* Lines 36, 45 and 66: const wait = 3000 * attempts.
Backoff(a) == BackoffMs * a

\* NextPageNumber stepping by two.
SkipPage(p) == p + 2

\* Line 73: page++.
NextPageNumber(p) == p + 1

\* MorePages with the bound off by one.
MorePagesInclusive(p, tp) == p <= tp + 1

\* Line 23: while (page <= totalPages).
MorePages(p, tp) == p <= tp

Last(seq) == seq[Len(seq)]

\* runAssessment(): the call of line 194 enters fetchPatients, lines 19-21.
RunAssessment ==
    /\ pc = "start"
    /\ pc' = "outer"
    /\ runs' = runs + 1
    /\ patients' = <<>>
    /\ page' = 1
    /\ totalPages' = 1
    /\ UNCHANGED <<attempts, success, alerts, inflight, reqPages, events,
                   pageStart, only429, lastStatus, reported, gaveUp, malformed,
                   posts, postStatus, postBody, fnVars>>

\* Lines 23-25: the outer loop is entered for the current page.
BeginPage ==
    /\ pc = "outer"
    /\ MorePages(page, totalPages)
    /\ attempts' = 0
    /\ success' = FALSE
    /\ pc' = "inner"
    /\ events' = <<>>
    /\ pageStart' = patients
    /\ only429' = TRUE
    /\ UNCHANGED <<page, totalPages, patients, alerts, inflight, reqPages,
                   lastStatus, reported, gaveUp, malformed, posts, postStatus,
                   postBody, runs, fnVars>>

\* Lines 23 and 78: the outer loop ends and fetchPatients returns patients.
ReturnPatients ==
    /\ pc = "outer"
    /\ ~MorePages(page, totalPages)
    /\ pc' = "classify"
    /\ UNCHANGED <<page, totalPages, attempts, success, patients, alerts,
                   inflight, reqPages, events, pageStart, only429, lastStatus,
                   reported, gaveUp, malformed, posts, postStatus, postBody,
                   runs, fnVars>>

\* Lines 27-31: the inner loop continues and issues the GET for `page`.
IssueRequest ==
    /\ pc = "inner"
    /\ ShouldRetry(success, attempts)
    /\ pc' = "await"
    /\ inflight' = inflight + 1
    /\ events' = Append(events, 0)
    /\ reqPages' = IF reqPages # <<>> /\ Last(reqPages) = page
                   THEN reqPages
                   ELSE Append(reqPages, page)
    /\ UNCHANGED <<page, totalPages, attempts, success, patients, alerts,
                   pageStart, only429, lastStatus, reported, gaveUp, malformed,
                   posts, postStatus, postBody, runs, fnVars>>

\* Lines 27 and 72-75: the inner loop ends, by success or by exhaustion.
LeavePage ==
    /\ pc = "inner"
    /\ ~ShouldRetry(success, attempts)
    /\ page' = NextPageNumber(page)
    /\ pc' = "pagesleep"
    /\ gaveUp' = IF success THEN gaveUp ELSE gaveUp \cup {page}
    /\ UNCHANGED <<totalPages, attempts, success, patients, alerts, inflight,
                   reqPages, events, pageStart, only429, lastStatus, reported,
                   malformed, posts, postStatus, postBody, runs, fnVars>>

\* Line 75: the pause between pages is over.
PageSleepDone ==
    /\ pc = "pagesleep"
    /\ pc' = "outer"
    /\ UNCHANGED <<page, totalPages, attempts, success, patients, alerts,
                   inflight, reqPages, events, pageStart, only429, lastStatus,
                   reported, gaveUp, malformed, posts, postStatus, postBody,
                   runs, fnVars>>

\* attempts++; wait = 3000 * attempts; await sleep(wait): the three copies of
\* lines 35-38, 44-47 and 65-68.  `status` is the status of the response the
\* failed attempt received (0: none).
CountFailure(status) ==
    /\ attempts' = attempts + 1
    /\ events' = Append(events, Backoff(attempts + 1))
    /\ pc' = "sleep"
    /\ only429' = (only429 /\ status = 429)

\* Line 29: the promise of fetch settles, with a response of the given status
\* or (status 0) with a rejection.
Settled(status) ==
    /\ lastStatus' = status
    /\ inflight' = inflight - 1

\* Lines 34-40: the response is a 429.
Respond429 ==
    /\ pc = "await"
    /\ Settled(429)
    /\ CountFailure(429)
    /\ UNCHANGED <<page, totalPages, success, patients, alerts, reqPages,
                   pageStart, reported, gaveUp, malformed, posts, postStatus,
                   postBody, runs, fnVars>>

\* Lines 43-49: the response is a 500, 502 or 503.
RespondServerError ==
    /\ pc = "await"
    /\ \E status \in ServerErrors : Settled(status) /\ CountFailure(status)
    /\ UNCHANGED <<page, totalPages, success, patients, alerts, reqPages,
                   pageStart, reported, gaveUp, malformed, posts, postStatus,
                   postBody, runs, fnVars>>

\* Line 52 throws inside the try block of line 28, so the catch of lines
\* 63-69 receives the error.
RespondUnexpected ==
    /\ pc = "await"
    /\ \E status \in UnexpectedStatuses : Settled(status) /\ CountFailure(status)
    /\ UNCHANGED <<page, totalPages, success, patients, alerts, reqPages,
                   pageStart, reported, gaveUp, malformed, posts, postStatus,
                   postBody, runs, fnVars>>

\* Line 29: fetch rejects (no response), caught at line 63.
RespondNetworkError ==
    /\ pc = "await"
    /\ Settled(0)
    /\ CountFailure(0)
    /\ UNCHANGED <<page, totalPages, success, patients, alerts, reqPages,
                   pageStart, reported, gaveUp, malformed, posts, postStatus,
                   postBody, runs, fnVars>>

\* Lines 29-54: the response is a 2xx; none of the tests of lines 34, 43 and
\* 52 applies and the flow waits for the body at line 54, await res.json().
RespondSuccess ==
    /\ pc = "await"
    /\ Settled(200)
    /\ pc' = "body"
    /\ UNCHANGED <<page, totalPages, attempts, success, patients, alerts,
                   reqPages, events, pageStart, only429, reported, gaveUp,
                   malformed, posts, postStatus, postBody, runs, fnVars>>

\* Line 54: the body is not JSON; res.json() rejects, caught at line 63.
RespondUnparsable ==
    /\ pc = "body"
    /\ CountFailure(200)
    /\ UNCHANGED <<page, totalPages, success, patients, alerts, inflight,
                   reqPages, pageStart, lastStatus, reported, gaveUp,
                   malformed, posts, postStatus, postBody, runs, fnVars>>

\* Lines 54-60: res.json() resolves with a body that has no pagination
\* object.  Line 57 has already assigned patients when line 60 throws the
\* TypeError caught at line 63.
RespondNoPagination ==
    /\ pc = "body"
    /\ malformed < MaxMalformed
    /\ malformed' = malformed + 1
    /\ \E hasData \in BOOLEAN :
           patients' = Concat(patients, DataOf(page, hasData))
    /\ CountFailure(200)
    /\ UNCHANGED <<page, totalPages, success, alerts, inflight, reqPages,
                   pageStart, lastStatus, reported, gaveUp, posts, postStatus,
                   postBody, runs, fnVars>>

\* Lines 54-62: res.json() resolves with a body that has a pagination
\* object.
RespondOK ==
    /\ pc = "body"
    /\ \E hasData \in BOOLEAN, tp \in TotalPagesValues :
           /\ hasData \/ malformed < MaxMalformed
           /\ malformed' = IF hasData THEN malformed ELSE malformed + 1
           /\ patients' = Concat(patients, DataOf(page, hasData))
           /\ totalPages' = tp
           /\ reported' = IF reported \in {0, tp} THEN tp ELSE -1
    /\ success' = TRUE
    /\ pc' = "inner"
    /\ UNCHANGED <<page, attempts, alerts, inflight, reqPages, events,
                   pageStart, only429, lastStatus, gaveUp, posts, postStatus,
                   postBody, runs, fnVars>>

\* Lines 38, 47 and 68: the backoff sleep is over; back to line 27.
BackoffDone ==
    /\ pc = "sleep"
    /\ pc' = "inner"
    /\ UNCHANGED <<page, totalPages, attempts, success, patients, alerts,
                   inflight, reqPages, events, pageStart, only429, lastStatus,
                   reported, gaveUp, malformed, posts, postStatus, postBody,
                   runs, fnVars>>

(***************************************************************************)
(* runAssessment after the fetch, and submitResults.                       *)
(***************************************************************************)
PostStatuses == {200, 201, 400, 401, 500}

\* SubmitOutcome with a test of res.ok added.
SubmitOutcomeChecked(status, body) ==
    IF status = 0 \/ body # "json" \/ status \notin 200..299
    THEN "failed" ELSE "done"

\* SubmitOutcome with the POST issued again after a network error.
SubmitOutcomeRetrying(status, body) ==
    IF status = 0 THEN "submit"
    ELSE IF body # "json" THEN "failed" ELSE "done"

\* Lines 166-176: how submitResults ends, given the response (status 0: the
\* fetch rejected; body "json" or "malformed").  res.ok is not consulted.
SubmitOutcome(status, body) ==
    IF status = 0 \/ body # "json" THEN "failed" ELSE "done"

\* Line 187: const alerts = buildAlertLists(patients).
Classify ==
    /\ pc = "classify"
    /\ alerts' = buildAlertLists(patients)
    /\ pc' = "submit"
    /\ UNCHANGED <<page, totalPages, attempts, success, patients, inflight,
                   reqPages, events, pageStart, only429, lastStatus, reported,
                   gaveUp, malformed, posts, postStatus, postBody, runs,
                   fnVars>>

\* Lines 190 and 166-173: the POST is issued.
SubmitResults ==
    /\ pc = "submit"
    /\ posts' = posts + 1
    /\ pc' = "postawait"
    /\ UNCHANGED <<page, totalPages, attempts, success, patients, alerts,
                   inflight, reqPages, events, pageStart, only429, lastStatus,
                   reported, gaveUp, malformed, postStatus, postBody, runs,
                   fnVars>>

\* Line 166: the POST's fetch rejects; nothing catches it.
PostNetworkError ==
    /\ pc = "postawait"
    /\ postStatus' = 0
    /\ postBody' = "none"
    /\ pc' = SubmitOutcome(0, "none")
    /\ UNCHANGED <<page, totalPages, attempts, success, patients, alerts,
                   inflight, reqPages, events, pageStart, only429, lastStatus,
                   reported, gaveUp, malformed, posts, runs, fnVars>>

\* Lines 166-175: the POST is answered, with any status; the flow waits for
\* the body at line 175, await res.json().
PostResponse ==
    /\ pc = "postawait"
    /\ \E status \in PostStatuses : postStatus' = status
    /\ pc' = "postbody"
    /\ UNCHANGED <<page, totalPages, attempts, success, patients, alerts,
                   inflight, reqPages, events, pageStart, only429, lastStatus,
                   reported, gaveUp, malformed, posts, postBody, runs, fnVars>>

\* Lines 175-176: res.json() resolves (the body is logged and submitResults
\* returns) or rejects (nothing catches it).
PostBody ==
    /\ pc = "postbody"
    /\ \E body \in {"json", "malformed"} :
           /\ postBody' = body
           /\ pc' = SubmitOutcome(postStatus, body)
    /\ UNCHANGED <<page, totalPages, attempts, success, patients, alerts,
                   inflight, reqPages, events, pageStart, only429, lastStatus,
                   reported, gaveUp, malformed, posts, postStatus, runs,
                   fnVars>>

FnIdle ==
    /\ arg = Absent
    /\ given = [form |-> "none"]
    /\ applied = FALSE
    /\ out = 0

RunAt(label) ==
    /\ pc = label
    /\ page = 1
    /\ totalPages = 1
    /\ attempts = 0
    /\ success = FALSE
    /\ patients = <<>>
    /\ alerts = Absent
    /\ inflight = 0
    /\ reqPages = <<>>
    /\ events = <<>>
    /\ pageStart = <<>>
    /\ only429 = TRUE
    /\ lastStatus = -1
    /\ reported = 0
    /\ gaveUp = {}
    /\ malformed = 0
    /\ posts = 0
    /\ postStatus = -1
    /\ postBody = "none"
    /\ runs = 0

Init == RunAt("start") /\ FnIdle

Next ==
    \/ RunAssessment
    \/ BeginPage
    \/ ReturnPatients
    \/ IssueRequest
    \/ LeavePage
    \/ PageSleepDone
    \/ Respond429
    \/ RespondServerError
    \/ RespondUnexpected
    \/ RespondNetworkError
    \/ RespondSuccess
    \/ RespondUnparsable
    \/ RespondNoPagination
    \/ RespondOK
    \/ BackoffDone
    \/ Classify
    \/ SubmitResults
    \/ PostNetworkError
    \/ PostResponse
    \/ PostBody

Spec == Init /\ [][Next]_vars

\* The positions of the run.
Labels ==
    {"start", "outer", "inner", "await", "body", "sleep", "pagesleep",
     "classify", "submit", "postawait", "postbody", "done", "failed"}

\* The run has not ended: runAssessment has neither returned nor thrown.
Running == pc \notin {"done", "failed"}

\* The run when every awaited promise settles: each sleep ends, each request
\* is answered, and the flow resumes after every await.  Every step of Next
\* moves pc and some step is possible exactly while the run has not ended, so
\* under [][Next]_vars this is weak fairness of Next; it is written on pc so
\* that ENABLED does not have to unfold the recursive buildAlertLists.
FairSpec == Spec /\ WF_pc(Running /\ pc' \in Labels \ {pc})

(***************************************************************************)
(* Properties of the run.                                                  *)
(***************************************************************************)
IsPrefix(a, b) == Len(a) <= Len(b) /\ SubSeq(b, 1, Len(a)) = a

\* The number of GETs issued since the current page began.
NumRequests == Cardinality({i \in 1..Len(events) : events[i] = 0})

AfterFetch ==
    {"classify", "submit", "postawait", "postbody", "done", "failed"}

\* The data arrays of pages 1..n, one after the other.
RECURSIVE Pages(_)
Pages(n) == IF n = 0 THEN <<>> ELSE Pages(n - 1) \o PageData(n)

\* C1: a page response whose status is neither 2xx nor 429/500/502/503 makes
\* the fetch raise at once: no further request, no classification and no
\* submission; the run has failed.
C1_UnexpectedStatusRaises ==
    lastStatus \in UnexpectedStatuses =>
        /\ pc = "failed"
        /\ alerts = Absent
        /\ posts = 0

\* C2: no page number is requested more than 10 times; every failed response
\* counts as one attempt; the same page is requested again while fewer than
\* 10 attempts have failed; the count starts at 0 for every new page.
C2_AtMostTenRequestsPerPage ==
    /\ NumRequests <= 10
    /\ \A i, j \in 1..Len(reqPages) : i < j => reqPages[i] < reqPages[j]
    /\ NumRequests =
           attempts + (IF pc \in {"await", "body"} \/ success THEN 1 ELSE 0)
    /\ pc = "sleep" => Last(reqPages) = page
    /\ (pc = "inner" /\ ~success /\ attempts < 10) =>
           /\ ENABLED IssueRequest
           /\ attempts > 0 => Last(reqPages) = page
    /\ (pc \in {"await", "body"} /\ NumRequests = 1) => attempts = 0

\* The tenth request of page 2 is awaiting its response.
C2_Witness ==
    /\ pc = "await"
    /\ page = 2
    /\ attempts = 9
    /\ NumRequests = 10

\* C3: the wait after the k-th failed attempt of a page is 3000*k ms,
\* whatever the failure; three 429 responses and then a success make four
\* requests, with waits of 3000, 6000 and 9000 ms before the fourth.
C3_LinearBackoff ==
    /\ \A i \in 1..Len(events) :
           events[i] = IF i % 2 = 1 THEN 0 ELSE 3000 * (i \div 2)
    /\ Len(events) \in {2 * attempts, 2 * attempts + 1}
    /\ pc = "sleep" => (attempts >= 1 /\ Last(events) = 3000 * attempts)
    /\ (success /\ only429 /\ attempts = 3) =>
           events = <<0, 3000, 0, 6000, 0, 9000, 0>>

\* Page 2 has succeeded at its fourth request, after three 429 responses.
C3_Witness ==
    /\ pc = "inner"
    /\ page = 2
    /\ success
    /\ only429
    /\ attempts = 3
    /\ lastStatus = 200

\* C4: when the tenth attempt of a page has failed, the fetch raises nothing:
\* it moves to the next page number, and the records accumulated from the
\* earlier pages are still there, unchanged.
C4_ExhaustionIsSilent ==
    [][(pc = "inner" /\ ~success /\ attempts >= 10) =>
           /\ pc' = "pagesleep"
           /\ page' = page + 1
           /\ patients' = patients
           /\ IsPrefix(pageStart, patients')]_vars

\* Page 2 was given up, page 1's records are kept and page 3 is requested.
C4_Witness ==
    /\ gaveUp = {2}
    /\ pc = "await"
    /\ page = 3
    /\ Last(reqPages) = 3
    /\ IsPrefix(PageData(1), patients)

\* C5, in every state: at most one GET is outstanding; the pages requested
\* are 1, 2, 3, ... without a gap; classification and submission see no
\* outstanding GET; a POST is issued only once the alert lists exist.
C5_State ==
    /\ inflight <= 1
    /\ \A i \in 1..Len(reqPages) : reqPages[i] = i
    /\ pc \in AfterFetch => inflight = 0
    /\ alerts # Absent => pc \in AfterFetch \ {"classify"}
    /\ posts > 0 => alerts # Absent

\* C5, in every step: once fetchPatients has returned no GET is issued.
C5_Step ==
    pc \in AfterFetch =>
        /\ pc' \in AfterFetch
        /\ reqPages' = reqPages
        /\ events' = events
        /\ inflight' = inflight

\* C5: page requests are issued one at a time, for page numbers that start
\* at 1 and grow by exactly 1; buildAlertLists starts only after the last
\* page request has completed, and the POST only after buildAlertLists.
C5_Ordering == []C5_State /\ [][C5_Step]_vars

\* The run is over, having requested pages 1, 2 and 3 and posted once.
C5_Witness ==
    /\ pc = "done"
    /\ reqPages = <<1, 2, 3>>
    /\ posts = 1
    /\ alerts # Absent

\* C6: if every totalPages the server reported was the same N, no page was
\* given up and every body carried its data array, fetchPatients returns
\* the data arrays of pages 1..N in order, nothing missing or repeated.
C6_CompleteOrderedResult ==
    (/\ pc = "classify"
     /\ reported >= 1
     /\ gaveUp = {}
     /\ \A i \in 1..Len(patients) : patients[i].kind = "patient")
        => patients = Pages(reported)

\* C7 as stated: a submission that failed in any way, a non-2xx response
\* included, ends the run with an error.
C7_AnySubmissionFailureIsFatal ==
    (/\ pc \in {"done", "failed"}
     /\ \/ postStatus = 0
        \/ postBody # "json"
        \/ postStatus \notin 200..299)
        => pc = "failed"

\* C7 as amended: the run fails after the POST exactly when the POST's fetch
\* rejected or the response body was not JSON; a non-2xx response with a
\* JSON body is logged and the run completes normally.
C7_TransportOrParseFailureIsFatal ==
    pc \in {"done", "failed"} =>
        (pc = "failed" <=> (postStatus = 0 \/ postBody # "json"))

\* A 500 with an unparsable body has ended the run with an error.
C7_Witness ==
    /\ pc = "failed"
    /\ postStatus = 500
    /\ postBody = "malformed"

\* C8: at most one POST is issued, whatever its outcome, and runAssessment
\* is entered exactly once.
C8_SinglePost ==
    /\ posts <= 1
    /\ runs <= 1
    /\ pc # "start" => runs = 1
    /\ pc \in {"postawait", "postbody", "done", "failed"} => posts = 1

\* The only POST was rejected by the network and the run has ended.
C8_Witness ==
    /\ pc = "failed"
    /\ postStatus = 0
    /\ posts = 1
    /\ runs = 1

EmptyAlerts ==
    [high_risk_patients |-> <<>>, fever_patients |-> <<>>,
     data_quality_issues |-> <<>>]

\* C17: an attempt that ends as a failure leaves the accumulator and the
\* known totalPages as they were, and the attempt that succeeds adds the
\* page's records once to what the accumulator held when the page began.
C17_FailedAttemptsLeaveNoTrace ==
    [][/\ (pc \in {"await", "body"} /\ pc' = "sleep") =>
              (patients' = patients /\ totalPages' = totalPages)
       /\ (pc = "body" /\ pc' = "inner") =>
              \E hasData \in BOOLEAN :
                  patients' = pageStart \o (IF hasData THEN PageData(page)
                                            ELSE <<Absent>>)]_vars

\* C18: once page 1 has been given up, page 1 is the only page ever
\* requested, totalPages is still 1, the fetch returns an empty sequence,
\* the alert lists are empty and the run does not fail before its POST.
C18_PageOneExhausted ==
    1 \in gaveUp =>
        /\ reqPages = <<1>>
        /\ totalPages = 1
        /\ patients = <<>>
        /\ alerts # Absent => alerts = EmptyAlerts
        /\ pc = "failed" => posts = 1

\* C19, in every state: with every reported totalPages at most MaxPages, at
\* most MaxPages pages are requested, each at most 10 times.
C19_Bounded ==
    /\ Len(reqPages) <= MaxPages
    /\ \A i \in 1..Len(reqPages) : reqPages[i] \in 1..MaxPages
    /\ NumRequests <= 10

\* C19: if every request returns and every reported totalPages is at most
\* N, the fetch issues at most 10*N requests (N pages, 10 requests each) and
\* the run reaches the submission step.
C19_FetchTerminates ==
    []C19_Bounded /\ <>(pc \in AfterFetch \ {"classify"})

\* The POST is being issued after three pages of which the last was given up.
C19_Witness ==
    /\ pc = "submit"
    /\ reqPages = <<1, 2, 3>>
    /\ gaveUp = {3}
    /\ NumRequests = 10

(***************************************************************************)
(* parseBP on its own: every input is drawn, then the function is applied. *)
(***************************************************************************)
RawAlphabet == {"1", "/", "x"}

RawStrings == UNION {[1..n -> RawAlphabet] : n \in 0..MaxRawLen}

\* What a blood_pressure field is built from: nothing, arbitrary characters,
\* or a pair of numbers printed around "/", possibly zero-padded or embedded
\* in other text.
BPInputs ==
    {[form |-> "absent"]}
    \cup {[form |-> "raw", chars |-> cs] : cs \in RawStrings}
    \cup [form : {"pair"}, s : 0..MaxSys, d : 0..MaxDia,
          pre : {<<>>, <<"0">>, <<"x">>}, post : {<<>>, <<"x">>}]

BPArg(g) ==
    IF g.form = "absent" THEN Absent
    ELSE IF g.form = "raw" THEN Str(g.chars)
    ELSE Str(g.pre \o ToDigits(g.s) \o <<"/">> \o ToDigits(g.d) \o g.post)

InitBP ==
    /\ RunAt("parseBP")
    /\ given \in BPInputs
    /\ arg = BPArg(given)
    /\ applied = FALSE
    /\ out = 0

ApplyParseBP ==
    /\ pc = "parseBP"
    /\ ~applied
    /\ applied' = TRUE
    /\ out' = parseBP(arg)
    /\ pc' = "returnedBP"
    /\ UNCHANGED <<page, totalPages, attempts, success, patients, alerts,
                   inflight, reqPages, events, pageStart, only429, lastStatus,
                   reported, gaveUp, malformed, posts, postStatus, postBody,
                   runs, arg, given>>

SpecBP == InitBP /\ [][ApplyParseBP]_vars

(***************************************************************************)
(* parseTemp on its own.                                                   *)
(***************************************************************************)
TempInputs ==
    {Absent, NaNValue, Num(0)} \cup {Num(v) : v \in MinTemp..MaxTemp}

InitTemp ==
    /\ RunAt("parseTemp")
    /\ arg \in TempInputs
    /\ given = [form |-> "value"]
    /\ applied = FALSE
    /\ out = 0

ApplyParseTemp ==
    /\ pc = "parseTemp"
    /\ ~applied
    /\ applied' = TRUE
    /\ out' = parseTemp(arg)
    /\ pc' = "returnedTemp"
    /\ UNCHANGED <<page, totalPages, attempts, success, patients, alerts,
                   inflight, reqPages, events, pageStart, only429, lastStatus,
                   reported, gaveUp, malformed, posts, postStatus, postBody,
                   runs, arg, given>>

SpecTemp == InitTemp /\ [][ApplyParseTemp]_vars

(***************************************************************************)
(* Properties of the scoring functions.                                    *)
(***************************************************************************)
\* Band k of the blood-pressure table, as the specification states it.
BandHolds(k, s, d) ==
    IF k = 1 THEN s < 120 /\ d < 80
    ELSE IF k = 2 THEN 120 <= s /\ s <= 129 /\ d < 80
    ELSE IF k = 3 THEN (130 <= s /\ s <= 139) \/ (80 <= d /\ d <= 89)
    ELSE s >= 140 \/ d >= 90

\* The number of the first band that holds, 0 when none does.
FirstBand(s, d) ==
    LET matching == {k \in 1..4 : BandHolds(k, s, d)}
    IN  IF matching = {} THEN 0
        ELSE CHOOSE k \in matching : \A m \in matching : k <= m

\* Whether a digit, "/" and a digit stand side by side somewhere in cs.
HasDigitSlashDigit(cs) ==
    \E i \in 1..(Len(cs) - 2) :
        IsDigit(cs[i]) /\ cs[i + 1] = "/" /\ IsDigit(cs[i + 2])

\* C9: parseBP returns the number of the first band, in the order 1, 2, 3,
\* 4, that the parsed pair (systolic, diastolic) satisfies, and 0 for an
\* absent, empty or non-matching string; (118,76) gives 1, (125,78) gives 2,
\* (135,85) gives 3, (145,95) gives 4 and (121,80) gives 3.
C9_parseBPFirstBand ==
    pc = "returnedBP" =>
        /\ given.form = "absent" => out = 0
        /\ (given.form = "raw" /\ ~HasDigitSlashDigit(given.chars)) => out = 0
        /\ given.form = "pair" => out = FirstBand(given.s, given.d)
        /\ (given.form = "pair" /\ given.s = 118 /\ given.d = 76) => out = 1
        /\ (given.form = "pair" /\ given.s = 125 /\ given.d = 78) => out = 2
        /\ (given.form = "pair" /\ given.s = 135 /\ given.d = 85) => out = 3
        /\ (given.form = "pair" /\ given.s = 145 /\ given.d = 95) => out = 4
        /\ (given.form = "pair" /\ given.s = 121 /\ given.d = 80) => out = 3

\* parseBP has returned 3 for "0121/80x": band 3 by its diastolic clause.
C9_Witness ==
    /\ pc = "returnedBP"
    /\ given.form = "pair"
    /\ given.s = 121
    /\ given.d = 80
    /\ given.pre = <<"0">>
    /\ given.post = <<"x">>
    /\ out = 3

\* C10: parseTemp returns 0 for an absent or not-a-number temperature and
\* for every value <= 99.5, 1 for every value above 99.5 and <= 100.9, and 2
\* for every value > 100.9; 99.5 gives 0, 99.6 gives 1, 100.9 gives 1 and
\* 101.0 gives 2.
C10_parseTempBands ==
    pc = "returnedTemp" =>
        /\ arg.kind \in {"absent", "nan"} => out = 0
        /\ (arg.kind = "num" /\ arg.v <= 9950) => out = 0
        /\ (arg.kind = "num" /\ arg.v > 9950 /\ arg.v <= 10090) => out = 1
        /\ (arg.kind = "num" /\ arg.v > 10090) => out = 2
        /\ arg = Num(9950) => out = 0
        /\ arg = Num(9960) => out = 1
        /\ arg = Num(10090) => out = 1
        /\ arg = Num(10100) => out = 2

\* parseTemp has returned 1 for 100.9, the upper edge of the middle band.
C10_Witness ==
    /\ pc = "returnedTemp"
    /\ arg = Num(10090)
    /\ out = 1

\* C20: for every pair of non-negative integers parseBP returns one of 1,
\* 2, 3, 4; it returns 0 only for an absent or empty field or a string in
\* which no digits/digits occurs.
C20_BandsExhaustive ==
    pc = "returnedBP" =>
        /\ out \in 0..4
        /\ given.form = "pair" => out \in 1..4
        /\ out = 0 <=>
               (arg.kind = "absent" \/ ~HasDigitSlashDigit(arg.chars))

\* parseBP has returned 3 for "125/85", a pair that bands 1, 2 and 4 all miss.
C20_Witness ==
    /\ pc = "returnedBP"
    /\ given.form = "pair"
    /\ given.s = 125
    /\ given.d = 85
    /\ given.pre = <<>>
    /\ given.post = <<>>
    /\ out = 3

(***************************************************************************)
(* parseAge on its own.                                                    *)
(***************************************************************************)
AgeInputs == {Absent, NaNValue} \cup {Num(v) : v \in 0..MaxAge}

InitAge ==
    /\ RunAt("parseAge")
    /\ arg \in AgeInputs
    /\ given = [form |-> "value"]
    /\ applied = FALSE
    /\ out = 0

ApplyParseAge ==
    /\ pc = "parseAge"
    /\ ~applied
    /\ applied' = TRUE
    /\ out' = parseAge(arg)
    /\ pc' = "returnedAge"
    /\ UNCHANGED <<page, totalPages, attempts, success, patients, alerts,
                   inflight, reqPages, events, pageStart, only429, lastStatus,
                   reported, gaveUp, malformed, posts, postStatus, postBody,
                   runs, arg, given>>

SpecAge == InitAge /\ [][ApplyParseAge]_vars

\* C11: parseAge returns 0 exactly when the age is absent or not a number,
\* 1 for every numeric age <= 65 and 2 for every age > 65; 39, 40 and 65
\* give 1 and 66 gives 2.
C11_parseAgeBands ==
    pc = "returnedAge" =>
        /\ out = 0 <=> arg.kind \in {"absent", "nan"}
        /\ (arg.kind = "num" /\ arg.v <= 65) => out = 1
        /\ (arg.kind = "num" /\ arg.v > 65) => out = 2
        /\ arg = Num(39) => out = 1
        /\ arg = Num(40) => out = 1
        /\ arg = Num(65) => out = 1
        /\ arg = Num(66) => out = 2

\* parseAge has returned 1 for 65, the upper edge of the band.
C11_Witness ==
    /\ pc = "returnedAge"
    /\ arg = Num(65)
    /\ out = 1

(***************************************************************************)
(* calculateRisk on its own.                                               *)
(***************************************************************************)
BPSamples ==
    {Absent, Str(<<>>), Str(<<"N", "/", "A">>), Str(<<"1", "5", "0", "/">>),
     Str(<<"1", "1", "8", "/", "7", "6">>),
     Str(<<"1", "2", "5", "/", "7", "8">>),
     Str(<<"1", "3", "5", "/", "8", "5">>),
     Str(<<"1", "4", "5", "/", "9", "5">>)}

TempSamples ==
    {Absent, NaNValue, Num(9800), Num(9950), Num(9955), Num(9960),
     Num(10090), Num(10120)}

AgeSamples == {Absent, NaNValue, Num(30), Num(45), Num(65), Num(70)}

MakePatient(id, bp, temp, age) ==
    [kind |-> "patient", patient_id |-> id, blood_pressure |-> bp,
     temperature |-> temp, age |-> age]

RiskInputs ==
    {Absent} \cup {MakePatient(1, bp, temp, age) :
                       bp \in BPSamples, temp \in TempSamples,
                       age \in AgeSamples}

InitRisk ==
    /\ RunAt("calculateRisk")
    /\ arg \in RiskInputs
    /\ given = [form |-> "value"]
    /\ applied = FALSE
    /\ out = 0

ApplyCalculateRisk ==
    /\ pc = "calculateRisk"
    /\ ~applied
    /\ applied' = TRUE
    /\ out' = calculateRisk(arg)
    /\ pc' = "returnedRisk"
    /\ UNCHANGED <<page, totalPages, attempts, success, patients, alerts,
                   inflight, reqPages, events, pageStart, only429, lastStatus,
                   reported, gaveUp, malformed, posts, postStatus, postBody,
                   runs, arg, given>>

SpecRisk == InitRisk /\ [][ApplyCalculateRisk]_vars

\* Whether a blood_pressure field is absent, empty or without digits/digits.
BPUnusable(bp) == bp.kind = "absent" \/ ~HasDigitSlashDigit(bp.chars)

\* Whether a temperature or age field is absent or not a number.
NotNumeric(x) == x.kind \in {"absent", "nan"}

\* C12: for a non-null patient, total is the sum of the three sub-scores and
\* dataIssue holds exactly when one of them is 0; so an absent or unparsable
\* blood pressure, temperature or age sets dataIssue, and so does every
\* temperature <= 99.5, also when all three fields are present and valid.
C12_TotalAndDataIssue ==
    (pc = "returnedRisk" /\ arg.kind = "patient") =>
        /\ out.total = out.bpScore + out.tempScore + out.ageScore
        /\ out.dataIssue <=> (\/ out.bpScore = 0
                              \/ out.tempScore = 0
                              \/ out.ageScore = 0)
        /\ BPUnusable(arg.blood_pressure) =>
               (out.bpScore = 0 /\ out.dataIssue)
        /\ NotNumeric(arg.temperature) => (out.tempScore = 0 /\ out.dataIssue)
        /\ NotNumeric(arg.age) => (out.ageScore = 0 /\ out.dataIssue)
        /\ (arg.temperature.kind = "num" /\ arg.temperature.v <= 9950) =>
               (out.tempScore = 0 /\ out.dataIssue)
        /\ (/\ ~BPUnusable(arg.blood_pressure)
            /\ arg.temperature.kind = "num" /\ arg.temperature.v > 9950
            /\ arg.age.kind = "num") => ~out.dataIssue

\* "118/76", 99.5 and age 30, all valid: total 2 and dataIssue all the same.
C12_Witness ==
    /\ pc = "returnedRisk"
    /\ arg = MakePatient(1, Str(<<"1", "1", "8", "/", "7", "6">>),
                         Num(9950), Num(30))
    /\ out.total = 2
    /\ out.dataIssue

(***************************************************************************)
(* buildAlertLists on its own.                                             *)
(***************************************************************************)
BP145 == Str(<<"1", "4", "5", "/", "9", "5">>)
BP118 == Str(<<"1", "1", "8", "/", "7", "6">>)

\* Eight records, one for each combination of the three memberships.
AlertPatients ==
    {MakePatient(1, BP145, Num(10120), Num(70)),
     MakePatient(2, Absent, Num(9800), Num(30)),
     MakePatient(3, BP118, Num(9955), Num(30)),
     MakePatient(4, BP145, NaNValue, Num(70)),
     MakePatient(5, Absent, Num(10120), Num(70)),
     MakePatient(6, BP118, Num(9960), Num(30)),
     MakePatient(7, BP145, Num(9955), Num(30)),
     MakePatient(8, Absent, Num(9960), Num(30))}

AlertInputs ==
    UNION {[1..n -> AlertPatients \cup {Absent}] : n \in 0..MaxList}

InitAlerts ==
    /\ RunAt("buildAlertLists")
    /\ arg \in AlertInputs
    /\ given = [form |-> "value"]
    /\ applied = FALSE
    /\ out = 0

ApplyBuildAlertLists ==
    /\ pc = "buildAlertLists"
    /\ ~applied
    /\ applied' = TRUE
    /\ out' = buildAlertLists(arg)
    /\ pc' = "returnedAlerts"
    /\ UNCHANGED <<page, totalPages, attempts, success, patients, alerts,
                   inflight, reqPages, events, pageStart, only429, lastStatus,
                   reported, gaveUp, malformed, posts, postStatus, postBody,
                   runs, arg, given>>

SpecAlerts == InitAlerts /\ [][ApplyBuildAlertLists]_vars

InSeq(x, seq) == \E i \in 1..Len(seq) : seq[i] = x

\* C13: a non-null patient's id is in high_risk_patients iff its total is
\* >= 4, in fever_patients iff its temperature is present and >= 99.6
\* (whatever its temperature score), in data_quality_issues iff its
\* dataIssue flag is set; none of the three depends on the others.
C13_Memberships ==
    pc = "returnedAlerts" =>
        \A i \in 1..Len(arg) :
            arg[i].kind = "patient" =>
                /\ InSeq(arg[i].patient_id, out.high_risk_patients)
                       <=> calculateRisk(arg[i]).total >= 4
                /\ InSeq(arg[i].patient_id, out.fever_patients)
                       <=> (/\ arg[i].temperature.kind = "num"
                            /\ arg[i].temperature.v >= 9960)
                /\ InSeq(arg[i].patient_id, out.data_quality_issues)
                       <=> calculateRisk(arg[i]).dataIssue

\* Patient 7 (temperature 99.55, score 1, total 6) is high-risk, no fever.
C13_Witness ==
    /\ pc = "returnedAlerts"
    /\ Len(arg) = 2
    /\ arg[1].kind = "patient" /\ arg[1].patient_id = 7
    /\ arg[2].kind = "patient" /\ arg[2].patient_id = 6
    /\ out.high_risk_patients = <<7>>
    /\ out.fever_patients = <<6>>
    /\ out.data_quality_issues = <<>>

\* The number of alert lists that hold identifier id.
ListCount(lists, id) ==
    (IF InSeq(id, lists.high_risk_patients) THEN 1 ELSE 0)
    + (IF InSeq(id, lists.fever_patients) THEN 1 ELSE 0)
    + (IF InSeq(id, lists.data_quality_issues) THEN 1 ELSE 0)

\* C14: for each k in 0..3 some patient record is placed in exactly k of the
\* three lists; in particular some non-null patient is in none.
C14_EveryCountOccurs ==
    pc = "returnedAlerts" =>
        \A k \in 0..3 :
            \E p \in AlertPatients :
                ListCount(buildAlertLists(<<p>>), p.patient_id) = k

\* Patient 3 ("118/76", 99.55, age 30) was classified: it is in no list.
C14_Witness ==
    /\ pc = "returnedAlerts"
    /\ Len(arg) = 1
    /\ arg[1].kind = "patient"
    /\ arg[1].patient_id = 3
    /\ ListCount(out, 3) = 0

IsHighRisk(p) == p.kind = "patient" /\ calculateRisk(p).total >= 4

HasFever(p) ==
    /\ p.kind = "patient"
    /\ p.temperature.kind = "num"
    /\ p.temperature.v >= 9960

HasDataIssue(p) == p.kind = "patient" /\ calculateRisk(p).dataIssue

Ids(ps) == [i \in 1..Len(ps) |-> ps[i].patient_id]

\* C15: each list is the sequence of identifiers of the qualifying input
\* records, in input order, one entry for every occurrence.
C15_OrderAndDuplicates ==
    pc = "returnedAlerts" =>
        /\ out.high_risk_patients = Ids(SelectSeq(arg, IsHighRisk))
        /\ out.fever_patients = Ids(SelectSeq(arg, HasFever))
        /\ out.data_quality_issues = Ids(SelectSeq(arg, HasDataIssue))

\* Patient 5 twice with patient 1 in between: 5 is listed twice, in order.
C15_Witness ==
    /\ pc = "returnedAlerts"
    /\ Len(arg) = 3
    /\ arg[1].kind = "patient" /\ arg[1].patient_id = 5
    /\ arg[2].kind = "patient" /\ arg[2].patient_id = 1
    /\ arg[3].kind = "patient" /\ arg[3].patient_id = 5
    /\ out.high_risk_patients = <<5, 1, 5>>
    /\ out.fever_patients = <<5, 1, 5>>
    /\ out.data_quality_issues = <<5, 5>>

\* The number of non-null entries of ps.
NumNonNull(ps) == Cardinality({i \in 1..Len(ps) : ps[i].kind = "patient"})

\* C16: a null entry adds an identifier to none of the lists, although
\* calculateRisk of a null record is 0/0/0, total 0, dataIssue true.
C16_NullEntriesSkipped ==
    pc = "returnedAlerts" =>
        /\ \A i \in 1..Len(arg) :
               arg[i].kind = "absent" =>
                   calculateRisk(arg[i]) =
                       [total |-> 0, bpScore |-> 0, tempScore |-> 0,
                        ageScore |-> 0, dataIssue |-> TRUE]
        /\ Len(out.high_risk_patients) =
               Cardinality({i \in 1..Len(arg) : IsHighRisk(arg[i])})
        /\ Len(out.fever_patients) =
               Cardinality({i \in 1..Len(arg) : HasFever(arg[i])})
        /\ Len(out.data_quality_issues) =
               Cardinality({i \in 1..Len(arg) : HasDataIssue(arg[i])})
        /\ NumNonNull(arg) = 0 =>
               out = [high_risk_patients |-> <<>>, fever_patients |-> <<>>,
                      data_quality_issues |-> <<>>]

\* Two null entries around patient 2: only patient 2 is listed.
C16_Witness ==
    /\ pc = "returnedAlerts"
    /\ Len(arg) = 3
    /\ arg[1].kind = "absent"
    /\ arg[2].kind = "patient" /\ arg[2].patient_id = 2
    /\ arg[3].kind = "absent"
    /\ out.data_quality_issues = <<2>>
    /\ out.high_risk_patients = <<>>
    /\ out.fever_patients = <<>>

====
